---- MODULE Spec2Model ----
(***************************************************************************)
(* Model of the three invoice generators of the repository:                *)
(*   "gi"      generate_invoices.py                                        *)
(*   "claude"  run-reu_claude.py  (class InvoiceGenerator)                 *)
(*   "mistral" run-reu_mistral.py                                          *)
(* One run = load configuration, fetch the calendar feed, select the       *)
(* events of (month, year), classify them by customer code, and render and *)
(* mail one invoice per customer.                                          *)
(***************************************************************************)
EXTENDS Integers, Sequences, FiniteSets, TLC

VARIABLES variant, month, year, cfg, remote, pc, fetched, cal, events,
          customer_events, order, invoices, mails, tried, err

vars == <<variant, month, year, cfg, remote, pc, fetched, cal, events,
          customer_events, order, invoices, mails, tried, err>>

(***************************************************************************)
(* Bounds of the model.                                                    *)
(***************************************************************************)
MaxYear == 2024
MaxEvents == 3
MaxLen == 6
MaxSortEvents == 3
MaxTzEvents == 2
MaxAggEvents == 3

Years == (MaxYear - 1)..MaxYear
Months == 1..12

(***************************************************************************)
(* Wall-clock values: [y, m, d, s] with s the second of the day.           *)
(* datetime.date / datetime.datetime of the standard library.              *)
(***************************************************************************)
IsLeap(y) == (y % 4 = 0 /\ y % 100 # 0) \/ y % 400 = 0

DaysInMonth(y, m) ==
    IF m = 2 THEN (IF IsLeap(y) THEN 29 ELSE 28)
    ELSE IF m \in {4, 6, 9, 11} THEN 30 ELSE 31

T(y, m, d, s) == [y |-> y, m |-> m, d |-> d, s |-> s]

\* a < b and a <= b on wall-clock values (datetime.__lt__, __le__)
TLess(a, b) ==
    \/ a.y < b.y
    \/ a.y = b.y /\ a.m < b.m
    \/ a.y = b.y /\ a.m = b.m /\ a.d < b.d
    \/ a.y = b.y /\ a.m = b.m /\ a.d = b.d /\ a.s < b.s

TLeq(a, b) == a = b \/ TLess(a, b)

NextDay(t) ==
    IF t.d < DaysInMonth(t.y, t.m) THEN T(t.y, t.m, t.d + 1, t.s)
    ELSE IF t.m < 12 THEN T(t.y, t.m + 1, 1, t.s)
    ELSE T(t.y + 1, 1, 1, t.s)

\* t - timedelta(days=1)
PrevDay(t) ==
    IF t.d > 1 THEN T(t.y, t.m, t.d - 1, t.s)
    ELSE IF t.m > 1 THEN T(t.y, t.m - 1, DaysInMonth(t.y, t.m - 1), t.s)
    ELSE T(t.y - 1, 12, 31, t.s)

\* t + timedelta(seconds=k), 0 <= k < 86400
AddSeconds(t, k) ==
    IF t.s + k < 86400 THEN T(t.y, t.m, t.d, t.s + k)
    ELSE NextDay(T(t.y, t.m, t.d, t.s + k - 86400))

RECURSIVE DaysBeforeMonth(_, _)
DaysBeforeMonth(y, m) ==
    IF m = 1 THEN 0 ELSE DaysBeforeMonth(y, m - 1) + DaysInMonth(y, m - 1)

\* days since 2000-01-01 (proleptic Gregorian ordinal, date.toordinal)
DayNum(t) ==
    LET k == t.y - 2000
    IN  365 * k + ((k + 3) \div 4) - ((k + 99) \div 100) + ((k + 399) \div 400)
        + DaysBeforeMonth(t.y, t.m) + (t.d - 1)

\* (b - a).total_seconds() for two values of the same kind
Diff(b, a) == (DayNum(b) - DayNum(a)) * 86400 + (b.s - a.s)

\* 0 = Sunday; 2000-01-01 was a Saturday
DayOfWeek(t) == (DayNum(t) + 6) % 7

LastSunday(y, m) == CHOOSE d \in 25..31 : DayOfWeek(T(y, m, d, 0)) = 0

\* UTC offset of Europe/Vienna and Europe/Berlin at the UTC instant t:
\* CEST from the last Sunday of March 01:00 UTC to the last Sunday of
\* October 01:00 UTC, CET otherwise.
UtcOffset(t) ==
    IF /\ TLeq(T(t.y, 3, LastSunday(t.y, 3), 3600), t)
       /\ TLess(t, T(t.y, 10, LastSunday(t.y, 10), 3600))
    THEN 7200 ELSE 3600

\* dt.astimezone(local_tz), wall clock of the result; t is given in UTC
astimezone(t) == AddSeconds(t, UtcOffset(t))

(***************************************************************************)
(* Property values of a VEVENT as icalendar hands them over (.dt):         *)
(*   "date"   a datetime.date            (t.s = 0)                         *)
(*   "naive"  a datetime without tzinfo  (floating local time)             *)
(*   "aware"  a datetime with tzinfo; t is its wall clock in UTC           *)
(*   "none"   the property is absent (component.get returns None)          *)
(***************************************************************************)
Dt(kind, t) == [kind |-> kind, t |-> t]
NoDt == Dt("none", T(0, 0, 0, 0))

\* str(None)
NoneStr == <<"N", "o", "n", "e">>
\* an absent DESCRIPTION property
Absent == <<"<absent>">>

VEvent(name, dtstart, dtend, description) ==
    [name |-> name, dtstart |-> dtstart, dtend |-> dtend,
     description |-> description, summary |-> <<"s">>]

(***************************************************************************)
(* Strings are sequences of characters.                                    *)
(***************************************************************************)
Ord(c) ==
    CASE c = " " -> 32  [] c = ":" -> 58
      [] c = "A" -> 65  [] c = "B" -> 66  [] c = "C" -> 67
      [] c = "N" -> 78  [] c = "X" -> 88  [] c = "Y" -> 89  [] c = "Z" -> 90
      [] c = "a" -> 97  [] c = "b" -> 98  [] c = "e" -> 101
      [] c = "n" -> 110 [] c = "o" -> 111 [] c = "s" -> 115
      [] c = "x" -> 120 [] c = "y" -> 121

\* the character class [A-Z]
InAZ(c) == Ord(c) \in 65..90

\* str.isspace for the characters of the model
IsSpace(c) == Ord(c) = 32

RECURSIVE lstrip(_)
lstrip(s) == IF s # <<>> /\ IsSpace(Head(s)) THEN lstrip(Tail(s)) ELSE s

RECURSIVE rstrip(_)
rstrip(s) ==
    IF s # <<>> /\ IsSpace(s[Len(s)]) THEN rstrip(SubSeq(s, 1, Len(s) - 1))
    ELSE s

\* str.strip()
strip(s) == rstrip(lstrip(s))

\* component.get('description', '') / component.get('description'), then str()
StrOr(description, default) ==
    IF description = Absent THEN default ELSE description

\* re.search instead of re.match: the pattern is found anywhere in the text
re_search(description) ==
    \E k \in 0..Len(description) :
        /\ Len(description) >= k + 4
        /\ \A i \in 1..3 : InAZ(description[k + i])
        /\ description[k + 4] = ":"

\* re.match(r'^[A-Z]{3}:', description) is not None
re_match(description) ==
    /\ Len(description) >= 4
    /\ \A i \in 1..3 : InAZ(description[i])
    /\ description[4] = ":"

\* match.group()[:-1]  and  match.group(1)
match_group(description) == SubSeq(description, 1, 3)

\* description[4:].strip()
clean_description(description) ==
    strip(SubSeq(description, 5, Len(description)))

\* 'sub in s'
Contains(s, c) == \E i \in 1..Len(s) : s[i] = c

\* description.split(':')[0]
split_first(s) ==
    IF Contains(s, ":")
    THEN SubSeq(s, 1, (CHOOSE i \in 1..Len(s) :
                          s[i] = ":" /\ \A j \in 1..(i - 1) : s[j] # ":") - 1)
    ELSE s

\* s.startswith(prefix + ":")
startswith_colon(s, prefix) ==
    /\ Len(s) >= Len(prefix) + 1
    /\ SubSeq(s, 1, Len(prefix)) = prefix
    /\ s[Len(prefix) + 1] = ":"

Idxs(n) == [i \in 1..n |-> i]

\* a raised exception that nothing catches / a returned value
Raise(kind) == [ok |-> FALSE, val |-> kind]
Return(v) == [ok |-> TRUE, val |-> v]

(***************************************************************************)
(* generate_invoices.py                                                    *)
(***************************************************************************)
ensure_datetime(v) == IF v.kind = "date" THEN Dt("naive", v.t) ELSE v

convert_to_local_time(v) ==
    IF v.kind = "naive" THEN v ELSE Dt("naive", astimezone(v.t))

period_start_date(m, y) == T(y, m, 1, 0)

period_end_date(m, y) ==
    IF m = 12 THEN PrevDay(T(y + 1, 1, 1, 0))
    ELSE PrevDay(T(y, m + 1, 1, 0))

\* start_date <= x <= end_date
in_period(x, m, y) ==
    TLeq(period_start_date(m, y), x.t) /\ TLeq(x.t, period_end_date(m, y))

local_start(ev) == convert_to_local_time(ensure_datetime(ev.dtstart))
local_end(ev) == convert_to_local_time(ensure_datetime(ev.dtend))

\* the indexes, in feed order, of the components appended to filtered_events;
\* None.dt raises AttributeError for a VEVENT without dtstart or dtend
filter_events_by_month_and_year(c, m, y) ==
    IF \E i \in 1..Len(c) :
          c[i].name = "VEVENT" /\ (c[i].dtstart = NoDt \/ c[i].dtend = NoDt)
    THEN Raise("AttributeError")
    ELSE Return(SelectSeq(Idxs(Len(c)), LAMBDA i :
            /\ c[i].name = "VEVENT"
            /\ \/ in_period(local_start(c[i]), m, y)
               \/ in_period(local_end(c[i]), m, y)))

EmptyDict == [keys |-> <<>>, val |-> <<>>]

\* dict_append with one list object shared by all keys: x lands in every list
dict_append_shared(d, k, x) ==
    [keys |-> IF k \in DOMAIN d.val THEN d.keys ELSE Append(d.keys, k),
     val |-> [kk \in (DOMAIN d.val) \cup {k} |->
                 IF kk \in DOMAIN d.val THEN Append(d.val[kk], x) ELSE <<x>>]]

\* d.setdefault(k, []).append(x) on a dict that keeps insertion order
dict_append(d, k, x) ==
    IF k \in DOMAIN d.val
    THEN [d EXCEPT !.val = [d.val EXCEPT ![k] = Append(@, x)]]
    ELSE [keys |-> Append(d.keys, k),
          val |-> [kk \in (DOMAIN d.val) \cup {k} |->
                      IF kk = k THEN <<x>> ELSE d.val[kk]]]

\* the classification loop of main: customer_events
RECURSIVE gi_classify(_, _, _)
gi_classify(c, filtered, d) ==
    IF filtered = <<>> THEN d
    ELSE LET i == Head(filtered)
             description == StrOr(c[i].description, NoneStr)
         IN  gi_classify(c, Tail(filtered),
                 IF re_match(description)
                 THEN dict_append(d, match_group(description), i)
                 ELSE d)

\* the table rows of generate_invoice, without the header row
generate_invoice(c, evs) ==
    [k \in 1..Len(evs) |->
        LET ev == c[evs[k]]
        IN  [idx |-> evs[k], summary |-> ev.summary,
             start |-> local_start(ev).t, end |-> local_end(ev).t,
             duration |-> Diff(local_end(ev).t, local_start(ev).t)]]

(***************************************************************************)
(* run-reu_claude.py, class InvoiceGenerator                               *)
(***************************************************************************)
\* the coercion of start_date / end_date in parse_ical: an aware value is
\* moved to local_tz, a date becomes local midnight tagged with local_tz, and
\* a naive datetime is left as it is.  The result's t is its wall clock.
to_local(v) ==
    IF v.kind = "aware" THEN Dt("aware", astimezone(v.t))
    ELSE IF v.kind = "date" THEN Dt("aware", v.t)
    ELSE v

NoDuration == [none |-> TRUE, secs |-> 0]
Duration(secs) == [none |-> FALSE, secs |-> secs]

\* the VEVENT passes the month/year test and carries a customer code
claude_selected(ev, m, y) ==
    /\ to_local(ev.dtstart).t.m = m
    /\ to_local(ev.dtstart).t.y = y
    /\ re_match(StrOr(ev.description, <<>>))

\* end_date - start_date with one naive and one aware operand (TypeError)
mixed_subtraction(ev, m, y) ==
    /\ claude_selected(ev, m, y)
    /\ ev.dtend # NoDt
    /\ to_local(ev.dtend).kind # to_local(ev.dtstart).kind

claude_event(ev, i) ==
    LET description == StrOr(ev.description, <<>>)
        start_date == to_local(ev.dtstart)
    IN  [idx |-> i,
         customer_code |-> match_group(description),
         date |-> start_date,
         summary |-> ev.summary,
         description |-> clean_description(description),
         duration |-> IF ev.dtend = NoDt THEN NoDuration
                      ELSE Duration(Diff(to_local(ev.dtend).t, start_date.t))]

RECURSIVE parse_ical_loop(_, _, _, _, _)
parse_ical_loop(c, i, m, y, acc) ==
    IF i > Len(c) THEN Return(acc)
    ELSE IF c[i].name # "VEVENT" THEN parse_ical_loop(c, i + 1, m, y, acc)
    ELSE IF c[i].dtstart = NoDt THEN Raise("AttributeError")
    ELSE IF mixed_subtraction(c[i], m, y) THEN Raise("TypeError")
    ELSE parse_ical_loop(c, i + 1, m, y,
            IF claude_selected(c[i], m, y)
            THEN Append(acc, claude_event(c[i], i)) ELSE acc)

parse_ical(c, m, y) == parse_ical_loop(c, 1, m, y, <<>>)

RECURSIVE group_by_customer_loop(_, _)
group_by_customer_loop(evs, d) ==
    IF evs = <<>> THEN d
    ELSE group_by_customer_loop(Tail(evs),
            dict_append(d, Head(evs).customer_code, Head(evs)))

group_by_customer(evs) == group_by_customer_loop(evs, EmptyDict)

\* x is placed behind every element whose key is not greater than its own
RECURSIVE insert_sorted(_, _)
insert_sorted(sq, x) ==
    IF sq = <<>> THEN <<x>>
    ELSE IF TLess(x.date.t, sq[Len(sq)].date.t)
         THEN Append(insert_sorted(SubSeq(sq, 1, Len(sq) - 1), x), sq[Len(sq)])
         ELSE Append(sq, x)

\* the sort left out: the events stay in the order of the list
unsorted(evs) == evs

\* sorted(events, key=lambda x: x['date']), a stable sort
RECURSIVE sorted(_)
sorted(evs) ==
    IF evs = <<>> THEN <<>>
    ELSE insert_sorted(sorted(SubSeq(evs, 1, Len(evs) - 1)), evs[Len(evs)])

\* ordering a naive against an aware datetime raises TypeError
sort_raises(evs) ==
    \E i, j \in 1..Len(evs) : evs[i].date.kind # evs[j].date.kind

DigitChars == <<"0", "1", "2", "3", "4", "5", "6", "7", "8", "9">>

RECURSIVE Digits(_)
Digits(n) ==
    IF n < 10 THEN <<DigitChars[n + 1]>>
    ELSE Append(Digits(n \div 10), DigitChars[(n % 10) + 1])

\* f"{n:02d}"
Fmt02(n) ==
    IF n < 0 THEN <<"-">> \o Digits(0 - n)
    ELSE IF n < 10 THEN <<"0">> \o Digits(n)
    ELSE Digits(n)

\* HHMM with the minutes rounded to the nearest instead of cut off
HHMM_rounded(secs) ==
    Fmt02(secs \div 3600) \o <<":">> \o Fmt02(((secs % 3600) + 30) \div 60)

\* hours, remainder = divmod(secs, 3600); minutes, _ = divmod(remainder, 60);
\* f"{int(hours):02d}:{int(minutes):02d}"
HHMM(secs) == Fmt02(secs \div 3600) \o <<":">> \o Fmt02((secs % 3600) \div 60)

\* if event['duration']:
truthy(duration) == ~duration.none /\ duration.secs # 0

RECURSIVE total_duration(_)
total_duration(evs) ==
    IF evs = <<>> THEN 0
    ELSE total_duration(Tail(evs))
         + (IF truthy(Head(evs).duration) THEN Head(evs).duration.secs ELSE 0)

\* the table of create_pdf without its header row: the event rows in sorted
\* order and the text of the 'Gesamtdauer:' row (<<>> when there is none)
create_pdf(customer_code, evs) ==
    IF sort_raises(evs) THEN Raise("TypeError")
    ELSE LET srt == sorted(evs)
         IN  Return([customer |-> customer_code,
                     rows |-> [k \in 1..Len(srt) |->
                         [idx |-> srt[k].idx,
                          start |-> srt[k].date.t,
                          description |-> IF srt[k].description # <<>>
                                          THEN srt[k].description
                                          ELSE srt[k].summary,
                          duration_str |-> IF truthy(srt[k].duration)
                                           THEN HHMM(srt[k].duration.secs)
                                           ELSE <<>>]],
                     total |-> IF total_duration(evs) > 0
                               THEN HHMM(total_duration(evs)) ELSE <<>>])

\* generate_invoices: group_by_customer, then create_pdf for every customer
aggregate(evs) ==
    LET d == group_by_customer(evs)
    IN  [c \in DOMAIN d.val |-> create_pdf(c, d.val[c])]

(***************************************************************************)
(* run-reu_mistral.py                                                      *)
(***************************************************************************)
\* cal.walk('VEVENT') followed by filter_events_by_month_year; the month and
\* year of dtstart are read as they stand, without any conversion
filter_events_by_month_year(c, m, y) ==
    IF \E i \in 1..Len(c) : c[i].name = "VEVENT" /\ c[i].dtstart = NoDt
    THEN Raise("AttributeError")
    ELSE Return(SelectSeq(Idxs(Len(c)), LAMBDA i :
            /\ c[i].name = "VEVENT"
            /\ c[i].dtstart.t.m = m
            /\ c[i].dtstart.t.y = y))

\* the set customers of main
mistral_customers(c, filtered) ==
    {split_first(StrOr(c[filtered[k]].description, NoneStr)) :
        k \in {j \in 1..Len(filtered) :
                  Contains(StrOr(c[filtered[j]].description, NoneStr), ":")}}

\* the list comprehension customer_events of main
mistral_customer_events(c, filtered, customer) ==
    SelectSeq(filtered, LAMBDA i :
        startswith_colon(StrOr(c[i].description, NoneStr), customer))

\* the paragraphs generate_pdf_invoice adds per event
generate_pdf_invoice(c, evs) ==
    [k \in 1..Len(evs) |->
        [idx |-> evs[k], start |-> c[evs[k]].dtstart.t,
         summary |-> c[evs[k]].summary,
         description |-> c[evs[k]].description]]

\* the orders in which a set can be iterated
Orders(S) ==
    {p \in [1..Cardinality(S) -> S] :
        \A i, j \in 1..Cardinality(S) : p[i] = p[j] => i = j}

(***************************************************************************)
(* Configuration of one user: whether conf/<username>.conf exists and      *)
(* which settings it (for "sender": conf/defaults.conf) supplies.          *)
(*   url, cred (user name and password), email, server, port, logo, sender *)
(***************************************************************************)
ConfigKeys == {"sender", "url", "cred", "email", "server", "port", "logo"}
FullCfg == [exists |-> TRUE, keys |-> ConfigKeys]
NoCfgFile == [exists |-> FALSE, keys |-> {"sender"}]

\* main of generate_invoices.py: read_default_config, read_user_data and the
\* two early returns
gi_config_ok(c) ==
    /\ "sender" \in c.keys
    /\ c.exists
    /\ {"url", "cred", "email", "server", "port"} \subseteq c.keys

\* main of run-reu_mistral.py: the config.get calls before the download
mistral_config_ok(c) ==
    {"url", "cred", "logo", "server", "port"} \subseteq c.keys

\* download_ical: the three lookups inside the try block
claude_ical_ok(c) == {"url", "cred"} \subseteq c.keys

\* self.config.has_section('smtp')
has_smtp_section(c) == {"server", "port", "email"} \cap c.keys # {}

\* send_email: the four lookups inside the try block
claude_smtp_ok(c) == {"server", "port", "email"} \subseteq c.keys

Stop(p, e) == pc' = p /\ err' = e

(***************************************************************************)
(* Steps of one run.                                                       *)
(***************************************************************************)
LoadConfig ==
    /\ pc = "start"
    /\ CASE variant = "gi" ->
              IF gi_config_ok(cfg) THEN Stop("fetch", "none")
              ELSE Stop("exit", "ConfigError")
         [] variant = "claude" ->
              IF cfg.exists THEN Stop("fetch", "none")
              ELSE Stop("exit", "ConfigError")
         [] variant = "mistral" ->
              IF mistral_config_ok(cfg) THEN Stop("fetch", "none")
              ELSE Stop("crash", "ConfigError")
    /\ UNCHANGED <<variant, month, year, cfg, remote, fetched, cal, events,
                   customer_events, order, invoices, mails, tried>>

\* download_icalendar_file / download_ical / download_ical_file
Download ==
    /\ pc = "fetch"
    /\ IF variant = "claude" /\ ~claude_ical_ok(cfg)
       THEN Stop("exit", "ConfigError") /\ UNCHANGED <<fetched, cal>>
       ELSE /\ fetched' = TRUE
            /\ \E status_ok \in BOOLEAN :
                 IF status_ok THEN cal' = remote /\ Stop("parse", "none")
                 ELSE /\ UNCHANGED cal
                      /\ Stop(IF variant = "claude" THEN "exit" ELSE "crash",
                              "FetchError")
    /\ UNCHANGED <<variant, month, year, cfg, remote, events,
                   customer_events, order, invoices, mails, tried>>

\* filter_events_by_month_and_year / parse_ical / filter_events_by_month_year
Parse ==
    /\ pc = "parse"
    /\ LET r == CASE variant = "gi" ->
                       filter_events_by_month_and_year(cal, month, year)
                  [] variant = "claude" -> parse_ical(cal, month, year)
                  [] variant = "mistral" ->
                       filter_events_by_month_year(cal, month, year)
       IN  IF ~r.ok THEN Stop("crash", r.val) /\ UNCHANGED events
           ELSE /\ events' = r.val
                /\ Stop(IF variant = "claude" /\ r.val = <<>>
                        THEN "done" ELSE "group", "none")
    /\ UNCHANGED <<variant, month, year, cfg, remote, fetched, cal,
                   customer_events, order, invoices, mails, tried>>

\* the classification loop of main / group_by_customer / the set customers
Group ==
    /\ pc = "group"
    /\ CASE variant = "gi" ->
              LET d == gi_classify(cal, events, EmptyDict)
              IN  customer_events' = d.val /\ order' = d.keys
         [] variant = "claude" ->
              LET d == group_by_customer(events)
              IN  customer_events' = d.val /\ order' = d.keys
         [] variant = "mistral" ->
              /\ customer_events' =
                    [c \in mistral_customers(cal, events) |->
                        mistral_customer_events(cal, events, c)]
              /\ order' \in Orders(mistral_customers(cal, events))
    /\ Stop(IF order' = <<>> THEN "done" ELSE "render", "none")
    /\ UNCHANGED <<variant, month, year, cfg, remote, fetched, cal, events,
                   invoices, mails, tried>>

\* the loop moves on to the next customer
NextCustomer ==
    /\ order' = Tail(order)
    /\ Stop(IF Tail(order) = <<>> THEN "done" ELSE "render", "none")

\* generate_invoice / create_pdf / generate_pdf_invoice for the next customer
Render ==
    /\ pc = "render"
    /\ LET c == Head(order)
           r == CASE variant = "gi" ->
                       Return([customer |-> c, total |-> <<>>,
                               rows |-> generate_invoice(cal, customer_events[c])])
                  [] variant = "claude" -> create_pdf(c, customer_events[c])
                  [] variant = "mistral" ->
                       Return([customer |-> c, total |-> <<>>,
                               rows |-> generate_pdf_invoice(cal, customer_events[c])])
       IN  /\ tried' = tried \cup {<<"render", c>>}
           /\ \E built \in BOOLEAN :
                IF ~r.ok THEN Stop("crash", r.val) /\ UNCHANGED <<invoices, order>>
                ELSE IF ~built
                THEN Stop("crash", "RenderError") /\ UNCHANGED <<invoices, order>>
                ELSE /\ invoices' = Append(invoices, r.val)
                     /\ IF variant = "claude" /\ ~has_smtp_section(cfg)
                        THEN NextCustomer
                        ELSE Stop("send", "none") /\ UNCHANGED order
    /\ UNCHANGED <<variant, month, year, cfg, remote, fetched, cal, events,
                   customer_events, mails>>

\* send_email for the customer just rendered
Send ==
    /\ pc = "send"
    /\ LET c == Head(order)
       IN  /\ tried' = tried \cup {<<"send", c>>}
           /\ \E delivered \in BOOLEAN :
                IF delivered /\ (variant = "claude" => claude_smtp_ok(cfg))
                THEN mails' = Append(mails, c) /\ NextCustomer
                ELSE IF variant = "mistral"
                THEN Stop("crash", "DispatchError") /\ UNCHANGED <<mails, order>>
                ELSE UNCHANGED mails /\ NextCustomer
    /\ UNCHANGED <<variant, month, year, cfg, remote, fetched, cal, events,
                   customer_events, invoices>>

Next == LoadConfig \/ Download \/ Parse \/ Group \/ Render \/ Send

(***************************************************************************)
(* Inputs.                                                                 *)
(***************************************************************************)
Variants == {"gi", "claude", "mistral"}

RECURSIVE SeqsUpTo(_, _)
SeqsUpTo(S, n) ==
    IF n = 0 THEN {<<>>}
    ELSE LET P == SeqsUpTo(S, n - 1)
         IN  P \cup {Append(p, x) : p \in {q \in P : Len(q) = n - 1}, x \in S}

ABCx == <<"A", "B", "C", ":", " ", "x">>
XYZy == <<"X", "Y", "Z", ":", " ", "y">>
abx == <<"a", "b", ":", " ", "x">>

\* an event of 90 minutes on the first day of the period, floating time
Work(name, y, m, description) ==
    VEvent(name, Dt("naive", T(y, m, 1, 32400)),
           Dt("naive", T(y, m, 1, 37800)), description)

InitRest ==
    /\ pc = "start"
    /\ fetched = FALSE
    /\ cal = <<>>
    /\ events = <<>>
    /\ customer_events = <<>>
    /\ order = <<>>
    /\ invoices = <<>>
    /\ mails = <<>>
    /\ tried = {}
    /\ err = "none"

\* the start of a run of one of the variants Vs for one of the periods with
\* one of the configurations
InitRun(Vs, Periods, Cfgs) ==
    /\ variant \in Vs
    /\ \E p \in Periods : month = p[1] /\ year = p[2]
    /\ cfg \in Cfgs
    /\ InitRest

\* the server holds one of the feeds when the configuration is complete, and
\* a feed of one event in the runs with any other configuration
FeedsFor(c, m, y, Feeds) ==
    IF c = FullCfg THEN Feeds ELSE {<<Work("VEVENT", y, m, ABCx)>>}

AllCfgs ==
    {[exists |-> TRUE, keys |-> k] : k \in SUBSET ConfigKeys}
    \cup {[exists |-> FALSE, keys |-> k] : k \in SUBSET {"sender"}}

FewCfgs == {FullCfg, NoCfgFile, [exists |-> TRUE, keys |-> {"url", "cred"}]}

\* ---- runs over feeds of differently described events -------------------
RunEvents(m, y) ==
    {Work("VEVENT", y, m, d) : d \in {ABCx, XYZy, abx, Absent}}
    \cup {Work("VTODO", y, m, ABCx)}

RunFeeds(m, y) == SeqsUpTo(RunEvents(m, y), MaxEvents)

Init ==
    /\ InitRun(Variants, {<<3, MaxYear>>}, AllCfgs)
    /\ remote \in FeedsFor(cfg, month, year, RunFeeds(month, year))

Spec == Init /\ [][Next]_vars

\* ---- runs over feeds of one customer's events, for sorting and totals ----
SortDurations == {5400, 2700, 900, 89, -900}

SortEvents(m, y) ==
    {VEvent("VEVENT", Dt("naive", T(y, m, d, 32400)), NoDt, ABCx) : d \in {1, 2}}
    \cup {VEvent("VEVENT", Dt("naive", T(y, m, d, 32400)),
                 Dt("naive", T(y, m, d, 32400 + k)), ABCx) :
             d \in {1, 2}, k \in SortDurations}

SortFeeds(m, y) == SeqsUpTo(SortEvents(m, y), MaxSortEvents)

InitSort ==
    /\ InitRun(Variants, {<<3, MaxYear>>}, FewCfgs)
    /\ remote \in FeedsFor(cfg, month, year, SortFeeds(month, year))

SpecSort == InitSort /\ [][Next]_vars

\* ---- runs over one event at the edges of the period, for the filters ----
WithSecond(t, sec) == T(t.y, t.m, t.d, sec)

ProbeTimes(m, y) ==
    LET first == T(y, m, 1, 0)
        last == T(y, m, DaysInMonth(y, m), 0)
    IN  {PrevDay(first), WithSecond(PrevDay(first), 86399),
         first, WithSecond(first, 1),
         last, WithSecond(last, 1), WithSecond(last, 86399),
         NextDay(last)}

ProbeValues(m, y) ==
    {Dt(k, t) : k \in {"naive", "aware"}, t \in ProbeTimes(m, y)}
    \cup {Dt("date", t) : t \in {x \in ProbeTimes(m, y) : x.s = 0}}

FilterFeeds(m, y) ==
    {<<VEvent("VEVENT", s, e, ABCx)>> :
        s \in ProbeValues(m, y), e \in ProbeValues(m, y) \cup {NoDt}}

InitFilter ==
    /\ InitRun(Variants, Months \X Years, {FullCfg, NoCfgFile})
    /\ remote \in FeedsFor(cfg, month, year, FilterFeeds(month, year))

SpecFilter == InitFilter /\ [][Next]_vars

\* ---- runs over one event with an arbitrary description -----------------
Chars == {"A", "a", ":", " "}

ClassifyFeeds(m, y) ==
    {<<Work("VEVENT", y, m, d)>> : d \in SeqsUpTo(Chars, MaxLen) \cup {Absent}}

InitClassify ==
    /\ InitRun({"gi", "claude"}, {<<3, MaxYear>>}, {FullCfg, NoCfgFile})
    /\ remote \in FeedsFor(cfg, month, year, ClassifyFeeds(month, year))

SpecClassify == InitClassify /\ [][Next]_vars

\* ---- runs over feeds mixing date, naive and aware values ----------------
TzStarts(m, y) ==
    {Dt("date", T(y, m, 1, 0)), Dt("naive", T(y, m, 1, 32400)),
     Dt("aware", T(y, m, 1, 28800)), NoDt}

TzEnds(m, y) ==
    {Dt("date", T(y, m, 2, 0)), Dt("naive", T(y, m, 1, 37800)),
     Dt("aware", T(y, m, 1, 34200)), NoDt}

TzFeeds(m, y) ==
    SeqsUpTo({VEvent("VEVENT", s, e, ABCx) : s \in TzStarts(m, y), e \in TzEnds(m, y)},
             MaxTzEvents)

InitTz ==
    /\ InitRun(Variants, {<<3, MaxYear>>}, {FullCfg, NoCfgFile})
    /\ remote \in FeedsFor(cfg, month, year, TzFeeds(month, year))

SpecTz == InitTz /\ [][Next]_vars

\* ---- runs over feeds of two customers' events, for the aggregation ------
AggEvents(m, y) ==
    {VEvent("VEVENT", Dt("naive", T(y, m, d, 32400)), NoDt, desc) :
        d \in {1, 2}, desc \in {ABCx, XYZy}}
    \cup {VEvent("VEVENT", Dt("naive", T(y, m, d, 32400)),
                 Dt("naive", T(y, m, d, 32400 + k)), desc) :
             d \in {1, 2}, k \in {5400, 89}, desc \in {ABCx, XYZy}}

AggFeeds(m, y) == SeqsUpTo(AggEvents(m, y), MaxAggEvents)

InitAgg ==
    /\ InitRun({"claude"}, {<<3, MaxYear>>}, FewCfgs)
    /\ remote \in FeedsFor(cfg, month, year, AggFeeds(month, year))

SpecAgg == InitAgg /\ [][Next]_vars

(***************************************************************************)
(* Vocabulary of the properties.                                           *)
(***************************************************************************)
UpperLetters == {"A", "B", "C", "N", "X", "Y", "Z"}

\* a customer code: exactly three uppercase letters
IsCustomerCode(code) ==
    Len(code) = 3 /\ \A i \in 1..3 : code[i] \in UpperLetters

\* the description starts with three uppercase letters and a colon
HasCodePrefix(description) ==
    /\ description # Absent
    /\ Len(description) >= 4
    /\ IsCustomerCode(SubSeq(description, 1, 3))
    /\ description[4] = ":"

Terminated == pc \in {"done", "exit", "crash"}

\* the feed index of an element of events or of a customer's event list
IdxOf(x) == IF variant = "claude" THEN x.idx ELSE x

\* the customers of the run have been determined
Grouped ==
    \/ pc \in {"render", "send"}
    \/ tried # {}
    \/ pc = "done" /\ (variant = "claude" => events # <<>>)

Customers == DOMAIN customer_events

\* C4: every customer code for which an invoice is rendered or dispatched
\* consists of exactly three uppercase letters, and no event whose
\* description lacks the three-uppercase-letters-plus-colon prefix appears in
\* an invoice.
C4_OnlyCanonicalCodes ==
    /\ \A k \in 1..Len(invoices) :
          /\ IsCustomerCode(invoices[k].customer)
          /\ \A r \in 1..Len(invoices[k].rows) :
                HasCodePrefix(cal[invoices[k].rows[r].idx].description)
    /\ \A k \in 1..Len(mails) : IsCustomerCode(mails[k])

\* C5: each event is in the event list of at most one customer; each selected
\* event that carries a customer code is in the list keyed by that code; no
\* customer has an empty list.
C5_OneListPerEvent ==
    Grouped =>
      /\ \A c1, c2 \in Customers :
            \A i \in 1..Len(customer_events[c1]), j \in 1..Len(customer_events[c2]) :
               IdxOf(customer_events[c1][i]) = IdxOf(customer_events[c2][j])
                  => c1 = c2 /\ i = j
      /\ \A k \in 1..Len(events) :
            HasCodePrefix(cal[IdxOf(events[k])].description) =>
               LET code == SubSeq(cal[IdxOf(events[k])].description, 1, 3)
               IN  /\ code \in Customers
                   /\ \E i \in 1..Len(customer_events[code]) :
                         IdxOf(customer_events[code][i]) = IdxOf(events[k])
      /\ \A c \in Customers : customer_events[c] # <<>>

\* three selected events: one for each of two customers and one that
\* belongs to nobody
C5_Witness ==
    /\ variant = "gi"
    /\ pc = "render"
    /\ Cardinality(Customers) = 2
    /\ Len(events) = 3
    /\ \E k \in 1..3 : ~HasCodePrefix(cal[events[k]].description)

\* C8: a failure while rendering or sending the invoice of one customer does
\* not keep the loop from attempting the remaining customers.
C8_LoopReachesEveryCustomer ==
    (Terminated /\ tried # {} /\ err \in {"none", "RenderError", "DispatchError"})
       => \A c \in Customers : <<"render", c>> \in tried

\* the settings the run needs: a configuration file with url, credentials,
\* e-mail, SMTP server and SMTP port
ConfigComplete ==
    cfg.exists /\ {"url", "cred", "email", "server", "port"} \subseteq cfg.keys

\* C9: with a missing or incomplete configuration the feed is never fetched
\* and no invoice and no e-mail is produced.
C9_NoFetchWithoutConfig ==
    ~ConfigComplete => ~fetched /\ invoices = <<>> /\ mails = <<>>


RECURSIVE EndedSeconds(_)
\* the sum, in seconds, of end - start over the events of idxs that have an end
EndedSeconds(idxs) ==
    IF idxs = {} THEN 0
    ELSE LET i == CHOOSE x \in idxs : TRUE
         IN  EndedSeconds(idxs \ {i})
             + (IF cal[i].dtend = NoDt THEN 0
                ELSE Diff(cal[i].dtend.t, cal[i].dtstart.t))

RowIdxs(inv) == {inv.rows[r].idx : r \in 1..Len(inv.rows)}

\* HH:MM of a number of seconds below 100 hours, the seconds cut off
TwoDigits(n) == <<DigitChars[(n \div 10) + 1], DigitChars[(n % 10) + 1]>>
HoursMinutes(secs) ==
    LET mins == CHOOSE k \in 0..5999 : 60 * k <= secs /\ secs < 60 * (k + 1)
    IN  TwoDigits(mins \div 60) \o <<":">> \o TwoDigits(mins % 60)

\* C6: the total duration shown for a customer is the sum of the durations of
\* that customer's events that have an end, as HH:MM with the seconds cut
\* off; it is shown whenever that sum is positive.
C6_TotalIsTruncatedSum ==
    variant = "claude" =>
      \A k \in 1..Len(invoices) :
         LET sum == EndedSeconds(RowIdxs(invoices[k]))
         IN  /\ invoices[k].total # <<>> => invoices[k].total = HoursMinutes(sum)
             /\ sum > 0 => invoices[k].total # <<>>

\* a total of 01:31 from an event of 90 minutes, one of 89 seconds and one
\* without an end
C6_Witness ==
    /\ variant = "claude"
    /\ Len(invoices) = 1
    /\ invoices[1].total = <<"0", "1", ":", "3", "1">>
    /\ Len(invoices[1].rows) = 3
    /\ \E i \in 1..3 : cal[i].dtend = NoDt

\* C7: within each invoice of create_pdf and of generate_invoice the events
\* are listed in ascending order of start, events with equal start in feed
\* order.
C7_RowsSortedByStart ==
    variant \in {"gi", "claude"} =>
      \A k \in 1..Len(invoices) :
         \A i, j \in 1..Len(invoices[k].rows) :
            i < j =>
               \/ TLess(invoices[k].rows[i].start, invoices[k].rows[j].start)
               \/ /\ invoices[k].rows[i].start = invoices[k].rows[j].start
                  /\ invoices[k].rows[i].idx < invoices[k].rows[j].idx

\* the feed has been parsed and filtered without an error
Parsed == pc \in {"group", "render", "send", "done"} \/ tried # {}

\* the event at feed index i has been selected for the period
Selected(i) == \E k \in 1..Len(events) : IdxOf(events[k]) = i

\* a floating (naive) time within the last day of the period, after 00:00:00
OnLastDay(v) ==
    /\ v.kind = "naive"
    /\ v.t.y = year /\ v.t.m = month /\ v.t.d = DaysInMonth(year, month)
    /\ v.t.s \in 1..86399

\* C1: filter_events_by_month_and_year selects every event whose start and
\* end both fall on the last day of the month at a time of day after 00:00
\* and up to 23:59:59 (the period ends on the last day at 23:59:59, for
\* month 12 on Dec 31 of the same year).
C1_LastDayIsInPeriod ==
    (variant = "gi" /\ Parsed) =>
       \A i \in 1..Len(cal) :
          (OnLastDay(cal[i].dtstart) /\ OnLastDay(cal[i].dtend)) => Selected(i)

\* a floating time within [first day 00:00:00, last day 23:59:59]
InBounds(v) == v.kind = "naive" /\ v.t.y = year /\ v.t.m = month

Floating(ev) == ev.dtstart.kind = "naive" /\ ev.dtend.kind = "naive"

\* C2: in every variant of the period filter an event is selected if and only
\* if its start or its end lies within the period bounds.
C2_SelectedIffStartOrEndInPeriod ==
    Parsed =>
       \A i \in 1..Len(cal) :
          Floating(cal[i]) =>
             (Selected(i) <=> (InBounds(cal[i].dtstart) \/ InBounds(cal[i].dtend)))

\* c is rest without its leading and trailing blanks
IsTrimOf(c, rest) ==
    \E i, j \in 0..Len(rest) :
        /\ i + j <= Len(rest)
        /\ c = SubSeq(rest, i + 1, Len(rest) - j)
        /\ \A k \in 1..i : rest[k] = " "
        /\ \A k \in (Len(rest) - j + 1)..Len(rest) : rest[k] = " "
        /\ c = <<>> \/ (c[1] # " " /\ c[Len(c)] # " ")

\* C3: an event gets a customer code if and only if its description begins
\* with three uppercase letters and a colon; the code is those letters and the
\* cleaned description the text after the colon without surrounding blanks;
\* any other event is dropped without an error.
C3_ClassifiedIffCodePrefix ==
    /\ (variant = "claude" /\ Parsed) =>
          \A i \in 1..Len(cal) :
             LET d == cal[i].description
             IN  /\ Selected(i) <=> HasCodePrefix(d)
                 /\ \A k \in 1..Len(events) :
                       events[k].idx = i =>
                          /\ events[k].customer_code = SubSeq(d, 1, 3)
                          /\ IsTrimOf(events[k].description, SubSeq(d, 5, Len(d)))
    /\ (variant = "gi" /\ Grouped) =>
          \A i \in 1..Len(cal) :
             LET d == cal[i].description
             IN  /\ (\E c \in Customers : \E k \in 1..Len(customer_events[c]) :
                        customer_events[c][k] = i) <=> HasCodePrefix(d)
                 /\ \A c \in Customers : \A k \in 1..Len(customer_events[c]) :
                       customer_events[c][k] = i => c = SubSeq(d, 1, 3)
    /\ (variant \in {"gi", "claude"} /\ pc = "crash") =>
          err \in {"FetchError", "RenderError"}

\* "AAA: a" has been classified as customer AAA with the description "a"
C3_Witness ==
    /\ variant = "claude"
    /\ Parsed
    /\ cal = <<Work("VEVENT", year, month, <<"A", "A", "A", ":", " ", "a">>)>>
    /\ Len(events) = 1
    /\ events[1].customer_code = <<"A", "A", "A">>
    /\ events[1].description = <<"a">>

\* C10: no comparison or subtraction ever has one timezone-aware and one
\* naive operand (in Python such an operation raises TypeError).
C10_NoMixedOperands == err # "TypeError"

\* the stored end of the event precedes its start
EndsBeforeStart(ev) ==
    /\ ev.dtstart # NoDt /\ ev.dtend # NoDt
    /\ ev.dtstart.kind = ev.dtend.kind
    /\ TLess(ev.dtend.t, ev.dtstart.t)

\* C11: an event whose end precedes its start is rejected: it has no row in
\* its customer's invoice, no duration below zero is printed, and the total
\* is the sum over the remaining events only.
C11_NegativeDurationRejected ==
    variant = "claude" =>
      \A k \in 1..Len(invoices) :
         /\ \A r \in 1..Len(invoices[k].rows) :
               /\ ~EndsBeforeStart(cal[invoices[k].rows[r].idx])
               /\ invoices[k].rows[r].duration_str = <<>>
                     \/ Head(invoices[k].rows[r].duration_str) # "-"
         /\ LET sum == EndedSeconds({i \in 1..Len(cal) : ~EndsBeforeStart(cal[i])})
            IN  sum > 0 => invoices[k].total = HoursMinutes(sum)

\* the fetched feed has a VEVENT without dtstart, and every VEVENT has a dtend
OnlyStartMissing ==
    /\ \E i \in 1..Len(cal) : cal[i].name = "VEVENT" /\ cal[i].dtstart = NoDt
    /\ \A i \in 1..Len(cal) : cal[i].dtend # NoDt

\* C12: a VEVENT without dtstart is skipped and does not abort the run: the
\* feed is parsed without an error and the other events are selected as if
\* the defective one were absent.
C12_MissingStartIsSkipped ==
    (OnlyStartMissing /\ pc # "parse") =>
       /\ err # "AttributeError"
       /\ \A i \in 1..Len(cal) : InBounds(cal[i].dtstart) => Selected(i)

\* a VEVENT with a floating dtstart and no dtend
StartOnly(ev) ==
    ev.name = "VEVENT" /\ ev.dtstart.kind = "naive" /\ ev.dtend = NoDt

\* C13: a VEVENT that has dtstart but no dtend raises no error, is selected
\* exactly when its start is within the period bounds, and has a null
\* duration; in generate_invoices.py as well as in InvoiceGenerator.parse_ical.
C13_NoEndSelectedOnStart ==
    (variant \in {"gi", "claude"} /\ pc # "parse") =>
       \A i \in 1..Len(cal) :
          StartOnly(cal[i]) =>
             /\ err # "AttributeError"
             /\ Selected(i) <=> InBounds(cal[i].dtstart)
             /\ variant = "claude" =>
                   \A k \in 1..Len(events) :
                      events[k].idx = i => events[k].duration = NoDuration

\* the orderings of a list of events
Orderings(evs) ==
    {[k \in 1..Len(evs) |-> evs[p[k]]] : p \in Orders(1..Len(evs))}

\* what a row shows
RowContent(row) ==
    [start |-> row.start, description |-> row.description,
     duration_str |-> row.duration_str]

RowContents(inv) == [k \in 1..Len(inv.rows) |-> RowContent(inv.rows[k])]

Occurrences(sq, x) == Cardinality({k \in 1..Len(sq) : sq[k] = x})

\* two results of create_pdf show the same rows in the same order and the
\* same total
SameInvoice(r1, r2) ==
    /\ r1.ok = r2.ok
    /\ r1.ok => /\ RowContents(r1.val) = RowContents(r2.val)
                /\ r1.val.total = r2.val.total

\* two results of create_pdf show the same rows, with the same start at every
\* position, and the same total
SameInvoiceUpToTies(r1, r2) ==
    /\ r1.ok = r2.ok
    /\ r1.ok =>
          LET a == RowContents(r1.val)
              b == RowContents(r2.val)
          IN  /\ Len(a) = Len(b)
              /\ \A k \in 1..Len(a) : a[k].start = b[k].start
              /\ \A k \in 1..Len(a) : Occurrences(a, a[k]) = Occurrences(b, a[k])
              /\ r1.val.total = r2.val.total

\* the classified events of the run are about to be aggregated
Aggregating == variant = "claude" /\ pc = "group"

\* C14 as stated: any two orderings of the classified events give the same
\* customers, the same sequence of rows per customer and the same totals.
C14_SameRowsInAnyOrder ==
    Aggregating =>
       \A q \in Orderings(events) :
          /\ DOMAIN aggregate(q) = DOMAIN aggregate(events)
          /\ \A c \in DOMAIN aggregate(events) :
                SameInvoice(aggregate(q)[c], aggregate(events)[c])

\* C14 as amended: any two orderings of the classified events give the same
\* customers, the same totals and, per customer, the same rows in ascending
\* order of start; only rows with equal start may change places.
C14_SameRowsUpToTies ==
    Aggregating =>
       \A q \in Orderings(events) :
          /\ DOMAIN aggregate(q) = DOMAIN aggregate(events)
          /\ \A c \in DOMAIN aggregate(events) :
                SameInvoiceUpToTies(aggregate(q)[c], aggregate(events)[c])

\* three events of two customers, not in order of start, of which another
\* ordering gives a different sequence of rows for one customer
C14_Witness ==
    /\ Aggregating
    /\ Len(events) = 3
    /\ Cardinality(DOMAIN aggregate(events)) = 2
    /\ \E i, j \in 1..3 : i < j /\ TLess(events[j].date.t, events[i].date.t)
    /\ \E q \in Orderings(events) :
          \E c \in DOMAIN aggregate(events) :
             ~SameInvoice(aggregate(q)[c], aggregate(events)[c])
====
